---- MODULE Spec2Model ----
(***************************************************************************)
(* Model of GUI/GUI_Material_Balance.py: the p/Z material-balance tool.    *)
(*                                                                         *)
(* The program is a single-threaded Tk application.  Its state is the five *)
(* module-level globals (production_data, reg_canvas, estimated_ogip_scf,  *)
(* slope, r_squared) plus the open column-selection window.  Each button   *)
(* handler runs to completion, so each handler is one action.              *)
(*                                                                         *)
(* Floating-point values are modelled as IEEE-754 values with exact        *)
(* rational arithmetic on the finite ones: a value is a record             *)
(*   [k |-> kind, n |-> numerator, d |-> denominator]                      *)
(* of kind "num" (finite, n/d in lowest terms, d > 0), "nan", "pinf" or     *)
(* "ninf".  Rounding, overflow and the sign of zero are abstracted away;   *)
(* NaN, the infinities and division by zero behave as in numpy / Python.   *)
(* Further kinds describe what else a DataFrame cell or a global can hold: *)
(*   "numstr"  a string holding a number ("1500"), in an object column     *)
(*   "str"     a string that is not a number ("abc")                       *)
(*   "date"    a parsed Timestamp                                          *)
(*   "none"    Python's None                                               *)
(*   "raise"   not a value: the evaluation raised an exception            *)
(***************************************************************************)
EXTENDS Integers, Sequences, FiniteSets, TLC

\* Bounds of the model.
MaxRows == 3          \* records per loaded file
MaxCalls == 2         \* regression invocations per behaviour
MaxMappings == 1      \* confirmed column mappings per behaviour

VARIABLES
    production_data,     \* None or <<DataFrame>>
    reg_canvas,          \* "None" or "canvas"
    estimated_ogip_scf,  \* value or NoneV
    slope,               \* value or NoneV
    r_squared,           \* value or NoneV
    column_window,       \* None or <<the column names the open selection window offers>>
    msg,                 \* title of the last message box shown
    report,              \* None or <<the rows last written by save_report>>
    \* history variables, read by the properties only
    mappings,            \* number of confirmed column mappings so far
    input,               \* the DataFrame as load_production_data stored it
    calls,               \* number of regression invocations so far
    src,                 \* for each result global, the invocation that set it
    res_current,         \* results were computed on the currently loaded dataset
    failed_since         \* a regression failed after the results were computed

vars == <<production_data, reg_canvas, estimated_ogip_scf, slope, r_squared,
          column_window, msg, report, mappings, input, calls, src,
          res_current, failed_since>>

----------------------------------------------------------------------------
\* Values

None == <<>>
Some(v) == <<v>>

Cell(kind, n, d) == [k |-> kind, n |-> n, d |-> d]
NaN == Cell("nan", 0, 1)
PInf == Cell("pinf", 0, 1)
NInf == Cell("ninf", 0, 1)
Text == Cell("str", 0, 1)
DateCell == Cell("date", 0, 1)
NoneV == Cell("none", 0, 1)
Raise == Cell("raise", 0, 1)

Abs(a) == IF a < 0 THEN -a ELSE a

RECURSIVE GCD(_, _)
GCD(a, b) == IF b = 0 THEN a ELSE GCD(b, a % b)

\* The finite value n/d (d # 0), in lowest terms with a positive denominator.
Num(n, d) ==
    LET g == GCD(Abs(n), Abs(d))
        s == IF d < 0 THEN -1 ELSE 1
    IN  Cell("num", (s * n) \div g, (s * d) \div g)

FromInt(n) == Num(n, 1)
Zero == FromInt(0)
One == FromInt(1)

IsFinite(c) == c.k = "num"
IsNaN(c) == c.k = "nan"
IsZero(c) == c.k = "num" /\ c.n = 0
Sign(c) ==
    IF c.k = "pinf" THEN 1
    ELSE IF c.k = "ninf" THEN -1
    ELSE IF c.n > 0 THEN 1 ELSE IF c.n < 0 THEN -1 ELSE 0
InfOfSign(s) == IF s > 0 THEN PInf ELSE IF s < 0 THEN NInf ELSE NaN

\* IEEE-754 arithmetic (numpy semantics: no operation raises).
FNeg(a) ==
    IF a.k = "num" THEN Num(-a.n, a.d)
    ELSE IF a.k = "pinf" THEN NInf
    ELSE IF a.k = "ninf" THEN PInf
    ELSE NaN

FAdd(a, b) ==
    IF IsNaN(a) \/ IsNaN(b) THEN NaN
    ELSE IF IsFinite(a) /\ IsFinite(b) THEN Num(a.n * b.d + b.n * a.d, a.d * b.d)
    ELSE IF IsFinite(a) THEN b
    ELSE IF IsFinite(b) THEN a
    ELSE IF a.k = b.k THEN a ELSE NaN

FSub(a, b) == FAdd(a, FNeg(b))

FMul(a, b) ==
    IF IsNaN(a) \/ IsNaN(b) THEN NaN
    ELSE IF IsFinite(a) /\ IsFinite(b) THEN Num(a.n * b.n, a.d * b.d)
    ELSE InfOfSign(Sign(a) * Sign(b))

FDiv(a, b) ==
    IF IsNaN(a) \/ IsNaN(b) THEN NaN
    ELSE IF IsFinite(b)
         THEN IF b.n = 0
              THEN InfOfSign(Sign(a))
              ELSE IF IsFinite(a) THEN Num(a.n * b.d, a.d * b.n)
                   ELSE InfOfSign(Sign(a) * Sign(b))
         ELSE IF IsFinite(a) THEN Zero ELSE NaN

\* np.sum: the sum of an array, 0.0 for the empty array.
RECURSIVE FSum(_)
FSum(s) == IF Len(s) = 0 THEN Zero ELSE FAdd(Head(s), FSum(Tail(s)))

\* np.mean
FMean(s) == FDiv(FSum(s), FromInt(Len(s)))

\* Python's float / float: ZeroDivisionError on a zero divisor.
PyDiv(a, b) == IF IsZero(b) THEN Raise ELSE FDiv(a, b)

\* Python's float(v) of a scalar taken from a DataFrame.
PyFloat(c) ==
    IF c.k \in {"num", "nan", "pinf", "ninf"} THEN c
    ELSE IF c.k = "numstr" THEN Cell("num", c.n, c.d)
    ELSE Raise

----------------------------------------------------------------------------
\* DataFrames: [cols |-> sequence of column names, rows |-> sequence of rows],
\* a row being the sequence of its cells, one per column.  Column names may
\* repeat (DataFrame.rename can produce duplicates).

ColIdx(df, name) == {j \in 1..Len(df.cols) : df.cols[j] = name}
NRows(df) == Len(df.rows)

\* df.iloc[i][name] as a scalar: KeyError when no column has the name; with
\* several columns of that name the result is a Series, which float() rejects.
ScalarAt(df, i, name) ==
    IF Cardinality(ColIdx(df, name)) = 1
    THEN df.rows[i][CHOOSE j \in ColIdx(df, name) : TRUE]
    ELSE Raise

\* df[name] for a name that exactly one column has.
ColumnValues(df, name) ==
    LET j == CHOOSE c \in ColIdx(df, name) : TRUE
    IN  [i \in 1..NRows(df) |-> df.rows[i][j]]

\* df[name] = vals: overwrites the column(s) of that name, or appends a column.
SetColumn(df, name, vals) ==
    IF ColIdx(df, name) = {}
    THEN [cols |-> Append(df.cols, name),
          rows |-> [i \in 1..NRows(df) |-> Append(df.rows[i], vals[i])]]
    ELSE [cols |-> df.cols,
          rows |-> [i \in 1..NRows(df) |->
                      [j \in 1..Len(df.cols) |->
                          IF df.cols[j] = name THEN vals[i] ELSE df.rows[i][j]]]]

Raised(s) == \E i \in DOMAIN s : s[i].k = "raise"

\* df[a] / df[b], elementwise.  A string or a Timestamp operand is a TypeError;
\* so is a name that does not select exactly one column here.
SeriesDiv(df, a, b) ==
    IF Cardinality(ColIdx(df, a)) # 1 \/ Cardinality(ColIdx(df, b)) # 1
    THEN <<Raise>>
    ELSE LET num == ColumnValues(df, a)
             den == ColumnValues(df, b)
             bad(c) == c.k \in {"numstr", "str", "date"}
         IN  IF \E i \in 1..NRows(df) : bad(num[i]) \/ bad(den[i])
             THEN <<Raise>>
             ELSE [i \in 1..NRows(df) |-> FDiv(num[i], den[i])]

\* Mutant of ToNumeric: text that is not a number becomes 0 instead of NaN.
ToNumeric_TextAsZero(c) ==
    IF c.k \in {"num", "nan", "pinf", "ninf"} THEN c
    ELSE IF c.k \in {"numstr", "date"} THEN Cell("num", c.n, c.d)
    ELSE Zero

\* pd.to_numeric(v, errors='coerce') of one element.
ToNumeric(c) ==
    IF c.k \in {"num", "nan", "pinf", "ninf"} THEN c
    ELSE IF c.k \in {"numstr", "date"} THEN Cell("num", c.n, c.d)
    ELSE NaN

\* pd.to_numeric(df[name], errors='coerce'): TypeError unless df[name] is a Series.
ToNumericColumn(df, name) ==
    IF Cardinality(ColIdx(df, name)) # 1
    THEN <<Raise>>
    ELSE LET v == ColumnValues(df, name)
         IN  [i \in 1..NRows(df) |-> ToNumeric(v[i])]

\* pandas' isna of one cell: NaN, None and NaT, not the infinities.
IsNA(c) == c.k \in {"nan", "none"}

\* df.dropna(subset=names, inplace=True)
DropNa(df, names) ==
    LET keep(row) == \A j \in 1..Len(df.cols) : df.cols[j] \in names => ~IsNA(row[j])
    IN  [cols |-> df.cols, rows |-> SelectSeq(df.rows, keep)]

----------------------------------------------------------------------------
\* The regression, lines 98-111.

Squares(x) == [i \in DOMAIN x |-> FMul(x[i], x[i])]
Products(x, y) == [i \in DOMAIN x |-> FMul(x[i], y[i])]

\* Mutant of Degenerate: the check for a zero sum of squares is missing.
Degenerate_Unchecked(x) == FALSE

\* np.sum(x**2) == 0
Degenerate(x) == IsZero(FSum(Squares(x)))

\* Mutant of OriginSlope: the sum of squares of y in the denominator.
OriginSlope_OverY(x, y) == FDiv(FSum(Products(x, y)), FSum(Squares(y)))

\* slope = np.sum(x * y) / np.sum(x**2)
OriginSlope(x, y) == FDiv(FSum(Products(x, y)), FSum(Squares(x)))

\* estimated_ogip_scf = slope * initial_pressure
Ogip(s, initial_pressure) == FMul(s, initial_pressure)

\* Mutant of RSquared: no guard, and a division that raises on a zero ss_tot.
RSquared_Unguarded(x, y, s) ==
    LET y_pred == [i \in DOMAIN x |-> FMul(s, x[i])]
        residuals == [i \in DOMAIN x |-> FSub(y[i], y_pred[i])]
        ss_res == FSum(Squares(residuals))
        mean == FMean(y)
        ss_tot == FSum(Squares([i \in DOMAIN y |-> FSub(y[i], mean)]))
    IN  IF PyDiv(ss_res, ss_tot) = Raise THEN Raise
        ELSE FSub(One, PyDiv(ss_res, ss_tot))

\* r_squared = 1 - ss_res / ss_tot if ss_tot != 0 else 0
RSquared(x, y, s) ==
    LET y_pred == [i \in DOMAIN x |-> FMul(s, x[i])]
        residuals == [i \in DOMAIN x |-> FSub(y[i], y_pred[i])]
        ss_res == FSum(Squares(residuals))
        mean == FMean(y)
        ss_tot == FSum(Squares([i \in DOMAIN y |-> FSub(y[i], mean)]))
    IN  IF ~IsZero(ss_tot) THEN FSub(One, FDiv(ss_res, ss_tot)) ELSE Zero

\* What one run of perform_regression_analysis does to the globals it owns.
\* cur holds the globals before the call; assigned names the result globals
\* this invocation wrote.
Outcome(pd, s, o, r, canvas, m, assigned) ==
    [pd |-> pd, slope |-> s, ogip |-> o, r2 |-> r, canvas |-> canvas,
     msg |-> m, assigned |-> assigned]

Regression(pd, cur) ==
    IF pd = None \/ NRows(pd[1]) = 0
    THEN Outcome(pd, cur.slope, cur.ogip, cur.r2, cur.canvas, "No Data", {})
    ELSE
    LET df0 == pd[1]
        initial_pressure == PyFloat(ScalarAt(df0, 1, "Pressure"))
        initial_z == PyFloat(ScalarAt(df0, 1, "Z"))
        ref == PyDiv(initial_pressure, initial_z)
        ratio == SeriesDiv(df0, "Pressure", "Z")
        df1 == SetColumn(df0, "x", [i \in 1..NRows(df0) |-> FSub(ref, ratio[i])])
        ynum == ToNumericColumn(df1, "CumProduction")
        df2 == SetColumn(df1, "y", ynum)
        df3 == DropNa(df2, {"x", "y"})
        x == ColumnValues(df3, "x")
        y == ColumnValues(df3, "y")
        new_slope == OriginSlope(x, y)
        new_ogip == Ogip(new_slope, initial_pressure)
        new_r2 == RSquared(x, y, new_slope)
        Caught(df, s, o, r, assigned) ==
            Outcome(Some(df), s, o, r, cur.canvas, "Calculation Error", assigned)
    IN  IF initial_pressure = Raise \/ initial_z = Raise \/ ref = Raise
           \/ Raised(ratio)
        THEN Caught(df0, cur.slope, cur.ogip, cur.r2, {})
        ELSE IF Raised(ynum)
        THEN Caught(df1, cur.slope, cur.ogip, cur.r2, {})
        ELSE IF Degenerate(x)
        THEN Outcome(Some(df3), cur.slope, cur.ogip, cur.r2, cur.canvas,
                     "Regression Error", {})
        ELSE IF new_slope = Raise
        THEN Caught(df3, cur.slope, cur.ogip, cur.r2, {})
        ELSE IF new_ogip = Raise
        THEN Caught(df3, new_slope, cur.ogip, cur.r2, {"slope"})
        ELSE IF new_r2 = Raise
        THEN Caught(df3, new_slope, new_ogip, cur.r2, {"slope", "ogip"})
        ELSE Outcome(Some(df3), new_slope, new_ogip, new_r2, "canvas",
                     "Regression Results", {"slope", "ogip", "r2"})

----------------------------------------------------------------------------
\* CSV files and pd.read_csv (lines 24-30).

Required == <<"Date", "Pressure", "Z", "CumProduction">>

\* A file: its header and its records, each field as read from the text:
\* "num" a number, "nan" an empty field, "str" any other text.
File(cols, rows) == [cols |-> cols, rows |-> rows]

\* pd.read_csv(path, parse_dates=['Date']).  A column holding any text that is
\* not a number is an object column: all its fields stay strings.  The Date
\* column is parsed to Timestamps.
ReadCsv(file) ==
    LET textual(j) == \E i \in 1..Len(file.rows) : file.rows[i][j].k = "str"
        conv(c, j) ==
            IF file.cols[j] = "Date" THEN DateCell
            ELSE IF textual(j) /\ c.k = "num" THEN Cell("numstr", c.n, c.d)
            ELSE c
    IN  [cols |-> file.cols,
         rows |-> [i \in 1..Len(file.rows) |->
                     [j \in 1..Len(file.cols) |-> conv(file.rows[i][j], j)]]]

HasColumn(file, name) == \E j \in 1..Len(file.cols) : file.cols[j] = name

\* One record of a well-formed file: Date, Pressure, Z, CumProduction.
Record(p, z, c) == <<Text, p, z, c>>

\* The files the user can pick in the full application model.
DeclineFile == File(Required, <<Record(FromInt(2), One, Zero),
                                Record(One, One, One)>>)
TextFirstFile == File(Required, <<Record(FromInt(2), One, Text),
                                  Record(One, One, One),
                                  Record(One, One, One)>>)
NoZFile == File(<<"Date", "Pressure", "CumProduction">>,
                <<<<Text, FromInt(2), Zero>>>>)
NoDateFile == File(<<"Pressure", "Z", "CumProduction">>,
                   <<<<FromInt(2), One, Zero>>>>)
Files == {DeclineFile, TextFirstFile, NoZFile, NoDateFile}

\* The records the regression engine is exercised on: clean records, records
\* with non-numeric CumProduction, and records with a zero or missing
\* Pressure or Z.
CleanRows == {Record(FromInt(p), One, FromInt(c)) : p \in 1..2, c \in 0..2}
                \cup {Record(FromInt(2), FromInt(2), Zero),
                      Record(FromInt(2), FromInt(2), One),
                      Record(One, FromInt(2), One)}
TextRows == {Record(FromInt(2), One, Text), Record(One, One, Text)}
OddRows == {Record(Zero, One, One), Record(NaN, One, One),
            Record(One, Zero, One), Record(One, NaN, One)}
Rows == CleanRows \cup TextRows \cup OddRows

SeqsUpTo(S, n) == UNION {[1..k -> S] : k \in 0..n}

----------------------------------------------------------------------------
\* save_report's number formatting (line 151).

RECURSIVE Pow10(_)
Pow10(e) == IF e = 0 THEN 1 ELSE 10 * Pow10(e - 1)

RECURSIVE IsPow2(_)
IsPow2(d) == IF d = 1 THEN TRUE ELSE IF d % 2 = 1 THEN FALSE ELSE IsPow2(d \div 2)

\* f"{v:,.2f}" / f"{v:.4f}": the set of texts the format can give, as the
\* number of units of 10^-digits.  The float is rounded to nearest, ties to
\* even; a tie of the exact value that no float represents falls to the side
\* the float's rounding error puts it on, which this model does not know.
\* None has no such format: TypeError.
FormatFixed(c, digits) ==
    IF c.k = "none" THEN {Raise}
    ELSE IF c.k # "num" THEN {Cell(c.k, 0, 1)}
    ELSE LET scale == Pow10(digits)
             t == c.n * scale
             q == t \div c.d
             r == t % c.d
             fixed(u) == Cell("fixed", u, scale)
         IN  IF 2 * r < c.d THEN {fixed(q)}
             ELSE IF 2 * r > c.d THEN {fixed(q + 1)}
             ELSE IF IsPow2(c.d) THEN {fixed(IF q % 2 = 0 THEN q ELSE q + 1)}
             ELSE {fixed(q), fixed(q + 1)}

----------------------------------------------------------------------------
\* The application.

Results == {"slope", "ogip", "r2"}

Init ==
    /\ production_data = None
    /\ reg_canvas = "None"
    /\ estimated_ogip_scf = NoneV
    /\ slope = NoneV
    /\ r_squared = NoneV
    /\ column_window = None
    /\ msg = ""
    /\ report = None
    /\ mappings = 0
    /\ input = None
    /\ calls = 0
    /\ src = [g \in Results |-> 0]
    /\ res_current = FALSE
    /\ failed_since = FALSE

Globals == <<production_data, reg_canvas, estimated_ogip_scf, slope, r_squared>>
History == <<mappings, input, calls, src, res_current, failed_since>>

\* load_production_data, lines 16-33.  The user cancels the dialog or picks a file.
load_production_data ==
    /\ \/ \* if not file_path: return
          UNCHANGED <<Globals, column_window, msg, report, History>>
       \/ \E file \in Files :
            IF ~HasColumn(file, "Date")
            THEN \* read_csv raises: ValueError for the missing parse_dates column
                 /\ msg' = "Load Error"
                 /\ UNCHANGED <<Globals, column_window, report, History>>
            ELSE IF \E j \in 1..Len(Required) : ~HasColumn(file, Required[j])
            THEN /\ msg' = "Missing Columns"
                 /\ UNCHANGED <<Globals, column_window, report, History>>
            ELSE /\ production_data' = Some(ReadCsv(file))
                 /\ msg' = "Data Loaded"
                 /\ input' = Some(ReadCsv(file))
                 /\ res_current' = FALSE
                 /\ failed_since' = FALSE
                 /\ UNCHANGED <<reg_canvas, estimated_ogip_scf, slope, r_squared,
                                column_window, report, mappings, calls, src>>

\* select_columns, lines 35-56 and 68: opens a window offering the current
\* column names.  The model follows one selection window at a time: the
\* button is not pressed again while a window is open.
select_columns ==
    /\ IF production_data = None
       THEN /\ msg' = "No Data"
            /\ UNCHANGED <<Globals, column_window, report, History>>
       ELSE /\ column_window = None
            /\ column_window' =
                  Some({production_data[1].cols[j] : j \in 1..Len(production_data[1].cols)})
            /\ UNCHANGED <<Globals, msg, report, History>>

\* DataFrame.rename(columns={p: "Pressure", z: "Z", c: "CumProduction"}): a dict
\* keeps the last value given for a repeated key; names not in the frame are ignored.
Rename(df, p, z, c) ==
    LET new(name) == IF name = c THEN "CumProduction"
                     ELSE IF name = z THEN "Z"
                     ELSE IF name = p THEN "Pressure"
                     ELSE name
    IN  [cols |-> [j \in 1..Len(df.cols) |-> new(df.cols[j])], rows |-> df.rows]

\* confirm_selection, lines 58-66: the user has picked three names in a window
\* and presses "Confirm Selection".
confirm_selection ==
    /\ mappings < MaxMappings
    /\ production_data # None
    /\ column_window # None
    /\ \E df \in {Rename(production_data[1], p, z, c) :
                      p \in column_window[1], z \in column_window[1],
                      c \in column_window[1]} :
          production_data' = Some(df)
    /\ column_window' = None
    /\ msg' = "Columns Set"
    /\ mappings' = mappings + 1
    /\ UNCHANGED <<reg_canvas, estimated_ogip_scf, slope, r_squared, report,
                   input, calls, src, res_current, failed_since>>

\* preview_data, lines 70-81.
preview_data ==
    /\ msg' = IF production_data = None THEN "No Data" ELSE msg
    /\ UNCHANGED <<Globals, column_window, report, History>>

\* perform_regression_analysis, lines 83-134.
perform_regression_analysis ==
    /\ calls < MaxCalls
    /\ \E out \in {Regression(production_data,
                               [slope |-> slope, ogip |-> estimated_ogip_scf,
                                r2 |-> r_squared, canvas |-> reg_canvas])} :
          /\ production_data' = out.pd
          /\ slope' = out.slope
          /\ estimated_ogip_scf' = out.ogip
          /\ r_squared' = out.r2
          /\ reg_canvas' = out.canvas
          /\ msg' = out.msg
          /\ src' = [g \in Results |-> IF g \in out.assigned THEN calls + 1 ELSE src[g]]
          /\ res_current' = IF out.msg = "Regression Results" THEN TRUE ELSE res_current
          /\ failed_since' = (out.msg # "Regression Results")
    /\ calls' = calls + 1
    /\ UNCHANGED <<column_window, report, mappings, input>>

\* save_report, lines 136-156.
save_report ==
    /\ IF estimated_ogip_scf = NoneV
       THEN /\ msg' = "No Results"
            /\ UNCHANGED report
       ELSE \/ \* if not file_path: return
               UNCHANGED <<msg, report>>
            \/ \E s \in FormatFixed(slope, 2), o \in FormatFixed(estimated_ogip_scf, 2),
                  r \in FormatFixed(r_squared, 4), written \in BOOLEAN :
                  IF s = Raise \/ o = Raise \/ r = Raise \/ ~written
                  THEN /\ msg' = "Save Error"
                       /\ UNCHANGED report
                  ELSE /\ msg' = "Report Saved"
                       /\ report' = Some(<<s, o, r>>)
    /\ UNCHANGED <<Globals, column_window, History>>

Next ==
    \/ load_production_data
    \/ select_columns
    \/ confirm_selection
    \/ preview_data
    \/ perform_regression_analysis
    \/ save_report

Spec == Init /\ [][Next]_vars

\* The regression engine on its own: a dataset has just been loaded, and the
\* regression is invoked on it, repeatedly.
EngineInit ==
    \E rows \in SeqsUpTo(Rows, MaxRows) :
        /\ production_data = Some(ReadCsv(File(Required, rows)))
        /\ input = production_data
        /\ reg_canvas = "None"
        /\ estimated_ogip_scf = NoneV
        /\ slope = NoneV
        /\ r_squared = NoneV
        /\ column_window = None
        /\ msg = "Data Loaded"
        /\ report = None
        /\ mappings = 0
        /\ calls = 0
        /\ src = [g \in Results |-> 0]
        /\ res_current = FALSE
        /\ failed_since = FALSE

EngineNext == perform_regression_analysis

EngineSpec == EngineInit /\ [][EngineNext]_vars

----------------------------------------------------------------------------
\* Properties.  They read the dataset as it was loaded (input) and the state
\* the last regression left.  A step with calls' = calls + 1 is one invocation
\* of perform_regression_analysis; msg keeps the title of the last message
\* box, so msg = "Regression Results" says that the last handler that showed
\* anything was a regression that succeeded.

In == input[1]
InN == NRows(In)
InP(i) == ScalarAt(In, i, "Pressure")
InZ(i) == ScalarAt(In, i, "Z")
InC(i) == ScalarAt(In, i, "CumProduction")

\* Every record has a defined Pressure and a defined, non-zero Z.
WellFormedPZ ==
    \A i \in 1..InN : InP(i).k = "num" /\ InZ(i).k = "num" /\ InZ(i).n # 0

\* The spec's transform of record i: x = p_i/z_i - p/Z.
InRatio(i) == FDiv(InP(i), InZ(i))
InX(i) == FSub(InRatio(1), InRatio(i))

TextIn == {i \in 1..InN : InC(i).k = "str"}
NumericCum == \A i \in 1..InN : InC(i).k = "num"

NoResults == slope = NoneV /\ estimated_ogip_scf = NoneV /\ r_squared = NoneV
ResultsUnchanged ==
    /\ slope' = slope
    /\ estimated_ogip_scf' = estimated_ogip_scf
    /\ r_squared' = r_squared
    /\ src' = src
Failed == msg \in {"No Data", "Regression Error", "Calculation Error"}

\* The frame's records all have the same finite Pressure/Z.
Flat(pd) ==
    /\ pd # None
    /\ NRows(pd[1]) > 0
    /\ \A name \in {"Pressure", "Z", "CumProduction"} :
          Cardinality(ColIdx(pd[1], name)) = 1
    /\ \A i \in 1..NRows(pd[1]) :
          LET p == ScalarAt(pd[1], i, "Pressure")
              z == ScalarAt(pd[1], i, "Z")
          IN  /\ p.k = "num" /\ z.k = "num" /\ z.n # 0
              /\ FDiv(p, z) = FDiv(ScalarAt(pd[1], 1, "Pressure"),
                                   ScalarAt(pd[1], 1, "Z"))

\* C1: a regression invoked on a dataset whose records all have pressure/Z
\* equal to the first record's reports the degenerate-regression error
\* ("Regression Error") and delivers no result: it assigns none of slope,
\* OGIP and R-squared.
C1_DegenerateReported ==
    [][(calls' = calls + 1 /\ Flat(production_data))
          => (msg' = "Regression Error" /\ ResultsUnchanged)]_vars

\* A first regression on a flat dataset of at least two records, one of them
\* with numeric CumProduction, has reported the error.
C1_Witness ==
    /\ calls = 1
    /\ Flat(input)
    /\ InN >= 2
    /\ \E i \in 1..InN : InC(i).k = "num"
    /\ msg = "Regression Error"
    /\ NoResults

\* C2: a regression invoked right after a regression, with no load or column
\* mapping in between, delivers what the first delivered: the same slope, OGIP
\* and R-squared after a success, no result after a failure.
C2_Idempotent ==
    [][(calls' = calls + 1 /\ calls >= 1
          /\ msg \in {"Regression Results", "Regression Error", "Calculation Error"})
          => IF msg = "Regression Results"
             THEN /\ msg' = "Regression Results"
                  /\ slope' = slope
                  /\ estimated_ogip_scf' = estimated_ogip_scf
                  /\ r_squared' = r_squared
             ELSE msg' # "Regression Results"]_vars

\* C3: a regression leaves the loaded dataset as it was: the same records in
\* the same order with the same fields.
C3_DatasetUntouched ==
    [][calls' = calls + 1 => production_data' = production_data]_vars

\* The dataset without its record i.
RemoveRow(df, i) ==
    [cols |-> df.cols,
     rows |-> [k \in 1..(NRows(df) - 1) |-> IF k < i THEN df.rows[k] ELSE df.rows[k + 1]]]

FirstRun(pd) ==
    Regression(pd, [slope |-> NoneV, ogip |-> NoneV, r2 |-> NoneV, canvas |-> "None"])

\* The state is the one a first regression leaves, and it is what the
\* regression gives on the loaded dataset without record i.
SameAsWithout(i) ==
    LET out == FirstRun(Some(RemoveRow(In, i)))
    IN  /\ msg = out.msg
        /\ slope = out.slope
        /\ estimated_ogip_scf = out.ogip
        /\ r_squared = out.r2

ExclusionAt(i) ==
    /\ NRows(production_data[1]) = InN - 1
    /\ SameAsWithout(i)

\* C4 as stated: with exactly one record, at any position, whose CumProduction
\* is not numeric (among two or more records, every Pressure and Z defined, Z
\* non-zero), the transform yields one point fewer than there are records, and
\* the results are those of the regression on the dataset without that record.
C4_ExclusionAnyPosition ==
    (calls = 1 /\ InN >= 2 /\ WellFormedPZ /\ Cardinality(TextIn) = 1)
        => \A i \in TextIn : ExclusionAt(i)

\* C4, amended: the same, for a record that is not the first.
C4_ExclusionNotFirst ==
    (calls = 1 /\ InN >= 2 /\ WellFormedPZ /\ Cardinality(TextIn) = 1 /\ 1 \notin TextIn)
        => \A i \in TextIn : ExclusionAt(i)

\* A dataset with one non-numeric record after the first has been fitted.
C4_Witness ==
    /\ calls = 1
    /\ WellFormedPZ
    /\ Cardinality(TextIn) = 1
    /\ 1 \notin TextIn
    /\ msg = "Regression Results"
    /\ NRows(production_data[1]) = InN - 1

\* C5: every point the fit used has a finite x and a finite y.
C5_FinitePoints ==
    (calls >= 1 /\ msg = "Regression Results")
        => \A i \in 1..NRows(production_data[1]) :
              /\ IsFinite(ScalarAt(production_data[1], i, "x"))
              /\ IsFinite(ScalarAt(production_data[1], i, "y"))

\* C6: when the first record's pressure or Z is zero or undefined, the
\* regression fails and computes no slope, OGIP or R-squared.
C6_MissingReference ==
    (calls = 1 /\ InN >= 1
        /\ (IsZero(InP(1)) \/ IsNaN(InP(1)) \/ IsZero(InZ(1)) \/ IsNaN(InZ(1))))
        => (Failed /\ NoResults)

\* C7: when every record of a non-empty dataset has non-numeric CumProduction,
\* the regression fails with the error an empty dataset gets ("No Data"), not
\* the degenerate-regression error; when some record survives, the dropped
\* records raise no error.
C7_EmptiedIsInputError ==
    (calls = 1 /\ InN >= 1 /\ WellFormedPZ /\ TextIn # {})
        => IF TextIn = 1..InN
           THEN msg = "No Data"
           ELSE msg \notin {"No Data", "Calculation Error"}

\* Pressure never rises from one record to the next, and takes two values.
Declining ==
    /\ \A i \in 1..(InN - 1) : InP(i + 1).n * InP(i).d <= InP(i).n * InP(i + 1).d
    /\ \E i, j \in 1..InN : InP(i) # InP(j)

\* CumProduction is k * x for one constant k; NonZeroLine: for a k # 0, with
\* some x # 0.
OnLine ==
    \/ \A i \in 1..InN : IsZero(InX(i)) /\ IsZero(InC(i))
    \/ \E j \in 1..InN :
          /\ ~IsZero(InX(j))
          /\ \A i \in 1..InN : FMul(InC(i), InX(j)) = FMul(InC(j), InX(i))
NonZeroLine ==
    \E j \in 1..InN :
        /\ ~IsZero(InX(j)) /\ ~IsZero(InC(j))
        /\ \A i \in 1..InN : FMul(InC(i), InX(j)) = FMul(InC(j), InX(i))

PerfectFit ==
    /\ msg = "Regression Results"
    /\ IsFinite(slope) /\ IsFinite(estimated_ogip_scf) /\ IsFinite(r_squared)
    /\ r_squared = One

\* C8 as stated: with at least two distinct pressure readings, declining, and
\* CumProduction = k * x exactly, the regression returns finite slope and OGIP
\* and R-squared exactly 1.
C8_PerfectLine ==
    (calls = 1 /\ InN >= 2 /\ WellFormedPZ /\ NumericCum /\ Declining /\ OnLine)
        => PerfectFit

\* C8, amended: the same when k is not zero and some record's pressure/Z
\* differs from the first record's.
C8_PerfectNonZeroLine ==
    (calls = 1 /\ InN >= 2 /\ WellFormedPZ /\ NumericCum /\ Declining /\ NonZeroLine)
        => PerfectFit

\* A line of slope 2 has been fitted.
C8_Witness ==
    /\ calls = 1 /\ InN >= 2 /\ WellFormedPZ /\ NumericCum /\ Declining /\ NonZeroLine
    /\ slope = FromInt(2)
    /\ r_squared = One

\* C9: slope, OGIP and R-squared are all unset, or all three were set by one
\* and the same invocation of the regression.
C9_Wholesale ==
    /\ src["slope"] = src["ogip"] /\ src["ogip"] = src["r2"]
    /\ (slope = NoneV) = (src["slope"] = 0)
    /\ (estimated_ogip_scf = NoneV) = (src["ogip"] = 0)
    /\ (r_squared = NoneV) = (src["r2"] = 0)

\* The results of the first invocation are still stored after a second
\* invocation that failed.
C9_Witness ==
    /\ calls = 2
    /\ msg = "Regression Error"
    /\ src["slope"] = 1 /\ src["ogip"] = 1 /\ src["r2"] = 1
    /\ slope # NoneV

\* C10: a report is written only after a regression has succeeded, and what
\* it holds was computed on the dataset now loaded, with no failed regression
\* since.
C10_ReportIsCurrent ==
    msg = "Report Saved"
        => /\ report # None
           /\ estimated_ogip_scf # NoneV
           /\ res_current
           /\ ~failed_since

====
